---------------------------- MODULE Spec2Model ----------------------------
(***************************************************************************)
(* The in-memory content repository of the blog: MockDatabaseService of    *)
(* src/src/services/mock-database.service.ts.                              *)
(*                                                                         *)
(* The store (one author, a batch of generated posts) is built by the      *)
(* constructor; every other operation is a read that returns a value.      *)
(* The state is the store plus the last call (operation, arguments,        *)
(* returned value).  What faker draws for a post (title, excerpt, date) is *)
(* any value of a small set.  The fields no operation reads (content,      *)
(* coverImage, tags) are left out of the post records.                     *)
(*                                                                         *)
(* faker is one generator shared by the whole process: its state (seed,    *)
(* number of draws since seeding) and the clock its dates are relative to  *)
(* are part of the state, and so is a second instance of the service,      *)
(* once one is constructed.                                                *)
(***************************************************************************)
EXTENDS Integers, Sequences, FiniteSets, TLC

VARIABLES
  author, posts,   \* the fields of the service instance
  op, args, result, \* the call in progress and the value it resolved to
  now,             \* the clock: instants elapsed since the instance was built
  faker,           \* the shared generator: its seed and the draws made since
  stream,          \* what the generator seeded by the constructor yields
  second           \* a second instance of the service, None before it is built

vars == <<author, posts, op, args, result, now, faker, stream, second>>

----------------------------------------------------------------------------
(* Bounds of the model *)

\* number of posts the constructor generates (25 in the source)
GenCount == 3
\* number of distinct instants faker.date.past may return
NumTicks == 3
\* instants per calendar month: the first is the first day at 00:00, the
\* last is on the last day of the month, after 00:00
TicksPerMonth == 2
\* instants the clock may advance after the first construction
MaxClock == 1

(* Calendar of Date: getFullYear / getMonth *)
MonthsPerYear == 12
EpochYear == 1970
\* perPage and page when the filter leaves them out
DefaultPerPage == 10
DefaultPage == 1

----------------------------------------------------------------------------
(* Optional values: undefined is <<>>, a present value v is <<v>> *)

None == <<>>
Some(v) == <<v>>

\* JavaScript truthiness of an optional number: undefined and 0 are falsy
TruthyNum(o) == o # None /\ o[1] # 0
\* JavaScript truthiness of an optional string: undefined and "" are falsy
TruthyStr(o) == o # None /\ o[1] # <<>>
\* o || d for an optional number
OrDefault(o, d) == IF TruthyNum(o) THEN o[1] ELSE d

Min(a, b) == IF a < b THEN a ELSE b
Max(a, b) == IF a > b THEN a ELSE b

----------------------------------------------------------------------------
(* Strings are sequences of one-character strings *)

toLowerCase1(c) ==
  CASE c = "A" -> "a"
    [] c = "B" -> "b"
    [] c = "C" -> "c"
    [] OTHER -> c

toLowerCase(s) == [i \in 1..Len(s) |-> toLowerCase1(s[i])]

\* String.prototype.includes
includes(s, sub) ==
  \E k \in 0..(Len(s) - Len(sub)) : \A i \in 1..Len(sub) : s[k + i] = sub[i]

WordChars == {"a", "b", "c", "A", "B", "C", "_"}

\* faker.helpers.slugify: spaces become "-", then every character outside
\* [\w.-] is removed
slugify1(c) == IF c = " " THEN "-" ELSE c
slugKeep(c) == c \in WordChars \cup {".", "-"}
slugify(s) == SelectSeq([i \in 1..Len(s) |-> slugify1(s[i])], slugKeep)

titleSlug(title) == toLowerCase(slugify(title))

----------------------------------------------------------------------------
(* Dates: an instant is a number of ticks since the epoch *)

TicksPerYear == MonthsPerYear * TicksPerMonth

getFullYear(t) == EpochYear + (t \div TicksPerYear)
getMonth(t) == (t \div TicksPerMonth) % MonthsPerYear

\* new Date(year, month, 1): the first instant of a month
monthStart(year, month) == ((year - EpochYear) * MonthsPerYear + month) * TicksPerMonth

\* first instant of December 2023
FirstTick == monthStart(2023, 11)
\* the dates faker.date.past may return when the clock is 0: the first
\* instants of NumTicks consecutive months
Times == {FirstTick + TicksPerMonth * k : k \in 0..(NumTicks - 1)}

----------------------------------------------------------------------------
(* What faker can draw *)

\* faker.lorem.sentence: words joined by spaces, capitalised, with a period
Titles == { <<"A", " ", "b", ".">>, <<"B", ".">> }
\* faker.lorem.paragraph
Excerpts == { <<"C", ".">> }

Draws == [title : Titles, excerpt : Excerpts, publishedAt : Times]

----------------------------------------------------------------------------
(* Array.prototype.sort (stable) and Array.prototype.slice *)

\* the two comparators of the source: a negative value puts a before b
compare(order, a, b) ==
  IF order = "asc" THEN a.publishedAt - b.publishedAt
  ELSE b.publishedAt - a.publishedAt

\* insert x after every element that does not compare greater than it
RECURSIVE insertSorted(_, _, _)
insertSorted(s, x, order) ==
  IF s = <<>> THEN <<x>>
  ELSE IF compare(order, s[Len(s)], x) <= 0 THEN Append(s, x)
  ELSE Append(insertSorted(SubSeq(s, 1, Len(s) - 1), x, order), s[Len(s)])

\* a sort that does not keep equal elements in their order
RECURSIVE sortUnstable(_, _)
sortUnstable(s, order) ==
  IF s = <<>> THEN <<>>
  ELSE LET r == sortUnstable(SubSeq(s, 1, Len(s) - 1), order)
           x == s[Len(s)]
           k == Cardinality({i \in 1..Len(r) : compare(order, r[i], x) < 0})
       IN SubSeq(r, 1, k) \o <<x>> \o SubSeq(r, k + 1, Len(r))

\* Array.prototype.sort with the comparator of the given order (stable)
RECURSIVE sort(_, _)
sort(s, order) ==
  IF s = <<>> THEN <<>>
  ELSE insertSorted(sort(SubSeq(s, 1, Len(s) - 1), order), s[Len(s)], order)

\* relative index of slice: negative counts from the end
sliceIndex(i, len) == IF i < 0 THEN Max(len + i, 0) ELSE Min(i, len)

slice(s, start, end) ==
  SubSeq(s, sliceIndex(start, Len(s)) + 1, sliceIndex(end, Len(s)))

\* Math.ceil(a / b) for a >= 0 and b # 0
ceilDiv(a, b) == IF b > 0 THEN (a + b - 1) \div b ELSE -(a \div (-b))

----------------------------------------------------------------------------
(* Construction *)

generateAuthor == [id |-> "author-uuid", name |-> "author-name"]

\* the post of the i-th iteration; its uuid is identified with i
generatePost(i, d, a) ==
  [id |-> i, title |-> d.title, slug |-> titleSlug(d.title),
   excerpt |-> d.excerpt, publishedAt |-> d.publishedAt, authorId |-> a.id]

\* the posts left in generation order
generatePostsUnsorted(draws, a) ==
  [i \in 1..Len(draws) |-> generatePost(i, draws[i], a)]

generatePosts(draws, a) ==
  sort([i \in 1..Len(draws) |-> generatePost(i, draws[i], a)], "desc")

withAuthor(p, a) == p @@ [author |-> a]

----------------------------------------------------------------------------
(* The shared generator and the constructor *)

ConstructorSeed == 123
PageContentSeed == 456
\* faker calls of generateAuthor, of one iteration of generatePosts (the
\* body of generateMarkdownContent counted as one), and of getPageContent
AuthorDraws == 8
PostDraws == 7
PageContentDraws == 12

\* faker.seed(n)
seed(n) == [seed |-> n, draws |-> 0]
\* the generator after k more draws
advance(g, k) == [g EXCEPT !.draws = @ + k]
\* the k-th value the generator in state g yields next: the seed and the
\* position in the sequence determine it
draw(g, k) == <<g.seed, g.draws + k>>

\* faker.date.past: a drawn distance before the reference date, which is
\* the clock at the time of the call
datedAt(d, clock) == [d EXCEPT !.publishedAt = @ + clock]

\* this.posts of an instance constructed when the clock shows `clock`
constructPosts(s, a, clock) ==
  generatePosts([i \in 1..Len(s) |-> datedAt(s[i], clock)], a)

\* the generator once the constructor has run
fakerAfterConstructor(n) == advance(seed(ConstructorSeed), AuthorDraws + PostDraws * n)

\* new MockDatabaseService() when the clock shows `clock`
construct(s, clock) ==
  [author |-> generateAuthor,
   posts |-> constructPosts(s, generateAuthor, clock)]

----------------------------------------------------------------------------
(* getPosts *)

matchesSearch(p, search) ==
  LET searchLower == toLowerCase(search)
  IN includes(toLowerCase(p.title), searchLower)
       \/ includes(toLowerCase(p.excerpt), searchLower)

applySearch(ps, f) ==
  IF TruthyStr(f.search)
    THEN SelectSeq(ps, LAMBDA p : matchesSearch(p, f.search[1]))
    ELSE ps

applyYear(ps, f) ==
  IF TruthyNum(f.year)
    THEN SelectSeq(ps, LAMBDA p : getFullYear(p.publishedAt) = f.year[1])
    ELSE ps

\* a month step that tests the month for truthiness, as the year step does
applyMonthTruthy(ps, f) ==
  IF TruthyNum(f.month)
    THEN SelectSeq(ps, LAMBDA p : getMonth(p.publishedAt) = f.month[1])
    ELSE ps

applyMonth(ps, f) ==
  IF f.month # None
    THEN SelectSeq(ps, LAMBDA p : getMonth(p.publishedAt) = f.month[1])
    ELSE ps

\* a sort step that always sorts newest first
applySortDescOnly(ps, f) == sort(ps, "desc")

\* a sort step that does not keep equal dates in their order
applySortUnstable(ps, f) ==
  IF f.sortOrder = "asc" THEN sortUnstable(ps, "asc") ELSE sortUnstable(ps, "desc")

\* a sort step that sorts oldest first unless 'desc' is asked for
applySortAscUnlessDesc(ps, f) ==
  IF f.sortOrder = "desc" THEN sort(ps, "desc") ELSE sort(ps, "asc")

applySort(ps, f) ==
  IF f.sortOrder = "asc" THEN sort(ps, "asc") ELSE sort(ps, "desc")

\* the filtered and sorted sequence, before pagination
filteredPosts(ps, f) == applySort(applyMonth(applyYear(applySearch(ps, f), f), f), f)

\* a pagination whose pages start one post early
paginateOverlapping(fs, f, a) ==
  LET page == OrDefault(f.page, DefaultPage)
      perPage == OrDefault(f.perPage, DefaultPerPage)
      total == Len(fs)
      totalPages == ceilDiv(total, perPage)
      startIndex == (page - 1) * (perPage - 1)
      endIndex == startIndex + perPage
      paginatedPosts == slice(fs, startIndex, endIndex)
  IN [posts |-> [i \in 1..Len(paginatedPosts) |-> withAuthor(paginatedPosts[i], a)],
      total |-> total, page |-> page, perPage |-> perPage,
      totalPages |-> totalPages]

paginate(fs, f, a) ==
  LET page == OrDefault(f.page, DefaultPage)
      perPage == OrDefault(f.perPage, DefaultPerPage)
      total == Len(fs)
      totalPages == ceilDiv(total, perPage)
      startIndex == (page - 1) * perPage
      endIndex == startIndex + perPage
      paginatedPosts == slice(fs, startIndex, endIndex)
  IN [posts |-> [i \in 1..Len(paginatedPosts) |-> withAuthor(paginatedPosts[i], a)],
      total |-> total, page |-> page, perPage |-> perPage,
      totalPages |-> totalPages]

getPosts(ps, a, f) == paginate(filteredPosts(ps, f), f, a)

----------------------------------------------------------------------------
(* getRecentPosts, getPostBySlug *)

getRecentPosts(ps, a, limit) ==
  LET sortedPosts == sort(ps, "desc")
      taken == slice(sortedPosts, 0, limit)
  IN [i \in 1..Len(taken) |-> withAuthor(taken[i], a)]

\* Array.prototype.findLast in the place of find
findLastBySlug(ps, slug) ==
  LET hits == {i \in 1..Len(ps) : ps[i].slug = slug}
  IN IF hits = {} THEN None
     ELSE Some(ps[CHOOSE i \in hits : \A j \in hits : i >= j])

\* Array.prototype.find: the first element with the slug, or undefined
findBySlug(ps, slug) ==
  LET hits == {i \in 1..Len(ps) : ps[i].slug = slug}
  IN IF hits = {} THEN None
     ELSE Some(ps[CHOOSE i \in hits : \A j \in hits : i <= j])

\* a lookup that falls back to the newest post
getPostBySlugOrNewest(ps, a, slug) ==
  LET post == findBySlug(ps, slug)
  IN IF post = None THEN Some(withAuthor(ps[1], a)) ELSE Some(withAuthor(post[1], a))

\* null is None
getPostBySlug(ps, a, slug) ==
  LET post == findBySlug(ps, slug)
  IN IF post = None THEN None ELSE Some(withAuthor(post[1], a))

----------------------------------------------------------------------------
(* getAuthor, getAvailableDates *)

getAuthor(a) == a

DigitChars == <<"0", "1", "2", "3", "4", "5", "6", "7", "8", "9">>

\* the decimal digits of a natural number
RECURSIVE digitsOf(_)
digitsOf(n) ==
  IF n < 10 THEN <<DigitChars[n + 1]>>
  ELSE Append(digitsOf(n \div 10), DigitChars[(n % 10) + 1])

\* String(n)
numToString(n) == IF n < 0 THEN <<"-">> \o digitsOf(-n) ELSE digitsOf(n)

\* `${year}-${month}`
dateKey(year, month) == numToString(year) \o <<"-">> \o numToString(month)

\* String.prototype.split on a one-character separator
RECURSIVE split(_, _)
split(str, sep) ==
  LET cuts == {i \in 1..Len(str) : str[i] = sep}
  IN IF cuts = {} THEN <<str>>
     ELSE LET c == CHOOSE i \in cuts : \A j \in cuts : i <= j
          IN <<SubSeq(str, 1, c - 1)>> \o split(SubSeq(str, c + 1, Len(str)), sep)

digitValue(c) == CHOOSE d \in 0..9 : DigitChars[d + 1] = c

\* Number(str) of a string of decimal digits; Number("") is 0
RECURSIVE Number(_)
Number(str) ==
  IF str = <<>> THEN 0
  ELSE 10 * Number(SubSeq(str, 1, Len(str) - 1)) + digitValue(str[Len(str)])

\* the keys collected in an array in the place of a Set
dateKeysOfEveryPost(ps) ==
  [i \in 1..Len(ps) |->
     dateKey(getFullYear(ps[i].publishedAt), getMonth(ps[i].publishedAt))]

\* the keys of the Set, in insertion order, after the posts ps were added
RECURSIVE dateKeys(_)
dateKeys(ps) ==
  IF ps = <<>> THEN <<>>
  ELSE LET keys == dateKeys(SubSeq(ps, 1, Len(ps) - 1))
           p == ps[Len(ps)]
           key == dateKey(getFullYear(p.publishedAt), getMonth(p.publishedAt))
       IN IF \E i \in 1..Len(keys) : keys[i] = key THEN keys ELSE Append(keys, key)

\* the key parsed back with the month counted from 1
parseDateKeyOneBased(key) ==
  LET parts == split(key, "-")
  IN [year |-> Number(parts[1]), month |-> Number(parts[2]) + 1]

\* const [year, month] = date.split('-').map(Number)
parseDateKey(key) ==
  LET parts == split(key, "-")
  IN [year |-> Number(parts[1]), month |-> Number(parts[2])]

\* the comparator of getAvailableDates: a negative value puts a before b
compareDates(a, b) ==
  IF a.year # b.year THEN b.year - a.year ELSE b.month - a.month

RECURSIVE insertDate(_, _)
insertDate(s, x) ==
  IF s = <<>> THEN <<x>>
  ELSE IF compareDates(s[Len(s)], x) <= 0 THEN Append(s, x)
  ELSE Append(insertDate(SubSeq(s, 1, Len(s) - 1), x), s[Len(s)])

RECURSIVE sortDates(_)
sortDates(s) ==
  IF s = <<>> THEN <<>>
  ELSE insertDate(sortDates(SubSeq(s, 1, Len(s) - 1)), s[Len(s)])

getAvailableDates(ps) ==
  LET keys == dateKeys(ps)
  IN sortDates([i \in 1..Len(keys) |-> parseDateKey(keys[i])])

----------------------------------------------------------------------------
(* getPageContent *)

\* a string of the page copy: a literal of the source, or the value the
\* generator in state g yields at its k-th next call
literal(text) == [text |-> text, seed |-> 0, index |-> 0]
drawn(g, k) == [text |-> "", seed |-> draw(g, k)[1], index |-> draw(g, k)[2]]

\* the object literal `content`, its faker calls evaluated in source order
\* by a generator in state g
pageContentTable(g) ==
  [home |->
     [pt |-> [title |-> drawn(g, 1), subtitle |-> Some(drawn(g, 2)), content |-> <<>>],
      en |-> [title |-> drawn(g, 3), subtitle |-> Some(drawn(g, 4)), content |-> <<>>]],
   about |->
     [pt |-> [title |-> literal("Sobre Este Blog"), subtitle |-> None,
              content |-> <<drawn(g, 5), drawn(g, 6), drawn(g, 7)>>],
      en |-> [title |-> literal("About This Blog"), subtitle |-> None,
              content |-> <<drawn(g, 8), drawn(g, 9), drawn(g, 10)>>]],
   contact |->
     [pt |-> [title |-> literal("Entre em Contato"), subtitle |-> None,
              content |-> <<literal("Sinta-se a vontade para entrar em contato!"),
                            drawn(g, 11)>>],
      en |-> [title |-> literal("Get In Touch"), subtitle |-> None,
              content |-> <<literal("Feel free to reach out!"), drawn(g, 12)>>]]]

\* how the promise settles: resolved with a value, resolved with undefined,
\* or rejected with the TypeError of reading a property of undefined
settled(kind, value) == [kind |-> kind, value |-> value]

\* the page copy built without faker.seed(456), by the generator as it is
getPageContentUnseeded(g, page, locale) ==
  LET content == pageContentTable(g)
  IN IF page \notin DOMAIN content THEN settled("TypeError", None)
     ELSE IF locale \notin DOMAIN content[page] THEN settled("undefined", None)
     ELSE settled("value", Some(content[page][locale]))

\* getPageContent called while the shared generator is in state g
getPageContent(g, page, locale) ==
  LET content == pageContentTable(seed(PageContentSeed))
  IN IF page \notin DOMAIN content THEN settled("TypeError", None)
     ELSE IF locale \notin DOMAIN content[page] THEN settled("undefined", None)
     ELSE settled("value", Some(content[page][locale]))

\* the shared generator once getPageContent has run
fakerAfterGetPageContent == advance(seed(PageContentSeed), PageContentDraws)

----------------------------------------------------------------------------
(* Arguments of the calls *)

Searches == {None, Some(<<"A">>)}
Years == {None, Some(0), Some(2024)}
Months == {None, Some(0), Some(11)}
SortOrders == {"asc", "desc"}
Pages == {None, Some(-1), Some(2)}
PerPages == {None, Some(-1), Some(2)}

PostFilters ==
  [search : Searches, year : Years, month : Months, sortOrder : SortOrders,
   page : Pages, perPage : PerPages]

\* getPosts() and getPosts({page, perPage}): search, year, month and
\* sortOrder are undefined, page and perPage may be
OmittedFilters ==
  [search : {None}, year : {None}, month : {None}, sortOrder : {"undefined"},
   page : Pages, perPage : PerPages]

Limits == {-1, 0, 1, 2, 3, 4}
Slugs == {titleSlug(t) : t \in Titles} \cup { <<"z">> }

----------------------------------------------------------------------------
(* The state machine *)

\* this.posts had getPosts sorted the array itself
postsSortedInPlace(ps, f) == applySort(ps, f)

\* this.posts after getPosts: the filters and the sort work on a copy
postsAfterGetPosts(ps, f) == ps

\* the state after new MockDatabaseService(): no call is in progress
InitWith(D) ==
  /\ stream \in [1..GenCount -> D]
  /\ now = 0
  /\ author = construct(stream, 0).author
  /\ posts = construct(stream, 0).posts
  /\ faker = fakerAfterConstructor(GenCount)
  /\ second = None
  /\ op = "idle"
  /\ args = None
  /\ result = None

Init == InitWith(Draws)

GetPostsWith(F) ==
  /\ op = "idle"
  /\ \E f \in F :
       /\ op' = "getPosts"
       /\ args' = f
       /\ result' = getPosts(posts, author, f)
       /\ posts' = postsAfterGetPosts(posts, f)
       /\ UNCHANGED <<author, now, faker, stream, second>>

GetPosts == GetPostsWith(PostFilters \cup OmittedFilters)

GetRecentPosts ==
  /\ op = "idle"
  /\ \E limit \in Limits :
       /\ op' = "getRecentPosts"
       /\ args' = limit
       /\ result' = getRecentPosts(posts, author, limit)
       /\ UNCHANGED <<author, posts, now, faker, stream, second>>

GetPostBySlug ==
  /\ op = "idle"
  /\ \E slug \in Slugs :
       /\ op' = "getPostBySlug"
       /\ args' = slug
       /\ result' = getPostBySlug(posts, author, slug)
       /\ UNCHANGED <<author, posts, now, faker, stream, second>>

GetAuthor ==
  /\ op = "idle"
  /\ op' = "getAuthor"
  /\ args' = None
  /\ result' = getAuthor(author)
  /\ UNCHANGED <<author, posts, now, faker, stream, second>>

GetAvailableDates ==
  /\ op = "idle"
  /\ op' = "getAvailableDates"
  /\ args' = None
  /\ result' = getAvailableDates(posts)
  /\ UNCHANGED <<author, posts, now, faker, stream, second>>

\* the caller has taken the value the promise resolved to
Return ==
  /\ op # "idle"
  /\ op' = "idle"
  /\ args' = None
  /\ result' = None
  /\ UNCHANGED <<author, posts, now, faker, stream, second>>

\* the queries of one instance, the clock and the generator left alone
Next ==
  \/ GetPosts
  \/ GetRecentPosts
  \/ GetPostBySlug
  \/ GetAuthor
  \/ GetAvailableDates
  \/ Return

Spec == Init /\ [][Next]_vars

----------------------------------------------------------------------------
(* The life of the module-level instance `db`: the clock advances, page
   copy is requested, and another instance is constructed *)

\* pages and locales a caller may pass: the configured ones and one more
PageNames == {"home", "about", "contact", "blog"}
Locales == {"pt", "en", "es"}

\* the stores of posts that share a title
SameTitleDraws == {d \in Draws : d.title = <<"B", ".">>}

\* getPosts called with a sort order only
SortOnlyFilters ==
  {f \in PostFilters : /\ f.search = None /\ f.year = None /\ f.month = None
                       /\ f.page = None /\ f.perPage = None}

\* getPosts called with a page size, and with or without a page
PagedFilters ==
  {f \in PostFilters : /\ f.search = None /\ f.year = None /\ f.month = None
                       /\ f.perPage # None}

LifecycleInit == InitWith(SameTitleDraws)

\* time passes
Tick ==
  /\ now < MaxClock
  /\ now' = now + 1
  /\ UNCHANGED <<author, posts, op, args, result, faker, stream, second>>

\* new MockDatabaseService() once more: it seeds the shared generator and
\* draws the same stream, with the dates taken back from the current clock
ConstructSecond ==
  /\ op = "idle"
  /\ second' = Some(construct(stream, now))
  /\ faker' = fakerAfterConstructor(GenCount)
  /\ UNCHANGED <<author, posts, op, args, result, now, stream>>

GetPageContent ==
  /\ op = "idle"
  /\ \E page \in PageNames, locale \in Locales :
       /\ op' = "getPageContent"
       /\ args' = [page |-> page, locale |-> locale]
       /\ result' = getPageContent(faker, page, locale)
       /\ faker' = fakerAfterGetPageContent
       /\ UNCHANGED <<author, posts, now, stream, second>>

GetPostsSorted == GetPostsWith(SortOnlyFilters)

GetPostsPaged == GetPostsWith(PagedFilters)

LifecycleNext ==
  \/ Tick
  \/ ConstructSecond
  \/ GetPageContent
  \/ GetPostsSorted
  \/ GetPostsPaged
  \/ GetRecentPosts
  \/ GetPostBySlug
  \/ GetAuthor
  \/ GetAvailableDates
  \/ Return

LifecycleSpec == LifecycleInit /\ [][LifecycleNext]_vars

----------------------------------------------------------------------------
(* Helpers of the properties *)

Reverse(s) == [i \in 1..Len(s) |-> s[Len(s) + 1 - i]]
datesOf(s) == [i \in 1..Len(s) |-> s[i].publishedAt]
Range(s) == {s[i] : i \in 1..Len(s)}

\* the envelope of page k for the filters f
pageOf(f, k) == getPosts(posts, author, [f EXCEPT !.page = Some(k)])

\* the posts of the pages 1..n of the filters f, in page order
RECURSIVE pagesUpTo(_, _)
pagesUpTo(f, n) ==
  IF n <= 0 THEN <<>> ELSE pagesUpTo(f, n - 1) \o pageOf(f, n).posts

\* the posts of all the pages 1..totalPages of the filters f
allPages(f) == pagesUpTo(f, getPosts(posts, author, f).totalPages)

\* the stored posts matching the filters as the specification words them
specMatches(p, f) ==
  /\ TruthyStr(f.search) =>
       \/ includes(toLowerCase(p.title), toLowerCase(f.search[1]))
       \/ includes(toLowerCase(p.excerpt), toLowerCase(f.search[1]))
  /\ TruthyNum(f.year) => getFullYear(p.publishedAt) = f.year[1]
  /\ f.month # None => getMonth(p.publishedAt) = f.month[1]

\* page 1 with a page size that holds the whole result
coversAll(f, r) == f.page = None /\ r.perPage >= r.total

hasTie(s) == \E i, j \in 1..Len(s) : i < j /\ s[i].publishedAt = s[j].publishedAt
hasDistinct(s) == \E i, j \in 1..Len(s) : s[i].publishedAt # s[j].publishedAt

----------------------------------------------------------------------------
(* Pagination *)

RECURSIVE sumPageLengths(_, _)
sumPageLengths(f, n) ==
  IF n <= 0 THEN 0 ELSE sumPageLengths(f, n - 1) + Len(pageOf(f, n).posts)

\* C1: for the filters of any getPosts call, the lengths of the pages
\* 1..totalPages add up to total, and unless total is 0 the last page holds
\* at least 1 and at most perPage posts.
C1_PagesSumToTotal ==
  op = "getPosts" =>
    /\ sumPageLengths(args, result.totalPages) = result.total
    /\ result.total # 0 =>
         LET last == Len(pageOf(args, result.totalPages).posts)
         IN 1 <= last /\ last <= result.perPage

\* C1 for the calls whose page size is positive (given or defaulted).
C1_PagesSumToTotal_PositivePerPage ==
  (op = "getPosts" /\ result.perPage >= 1) =>
    /\ sumPageLengths(args, result.totalPages) = result.total
    /\ result.total # 0 =>
         LET last == Len(pageOf(args, result.totalPages).posts)
         IN 1 <= last /\ last <= result.perPage

\* the elements of s at the 0-based indices lo..hi-1 that s has
elementsAt(s, lo, hi) ==
  LET idx == {i \in 1..Len(s) : lo < i /\ i <= hi}
  IN IF idx = {} THEN <<>>
     ELSE SubSeq(s, CHOOSE i \in idx : \A j \in idx : i <= j,
                    CHOOSE i \in idx : \A j \in idx : i >= j)

\* the filtered and sorted sequence of a call, author embedded
filteredWithAuthor(f) ==
  LET fs == filteredPosts(posts, f)
  IN [i \in 1..Len(fs) |-> withAuthor(fs[i], author)]

\* C2: posts holds exactly the elements at the indices
\* [(page-1)*perPage, page*perPage) of the filtered and sorted sequence, total
\* is the size of the filtered set, totalPages is ceil(total/perPage), and
\* total and totalPages are the same whichever page is requested.
C2_PageIsSliceOfFiltered ==
  op = "getPosts" =>
    /\ result.posts = elementsAt(filteredWithAuthor(args),
                                 (result.page - 1) * result.perPage,
                                 result.page * result.perPage)
    /\ result.total = Cardinality({i \in 1..Len(posts) : specMatches(posts[i], args)})
    /\ result.totalPages * result.perPage >= result.total
    /\ (result.totalPages - 1) * result.perPage < result.total
    /\ \A pg \in Pages :
         LET r == getPosts(posts, author, [args EXCEPT !.page = pg])
         IN r.total = result.total /\ r.totalPages = result.totalPages

\* C2 for the calls whose page number and page size are positive.
C2_PageIsSliceOfFiltered_PositiveArgs ==
  (op = "getPosts" /\ result.page >= 1 /\ result.perPage >= 1) =>
    /\ result.posts = elementsAt(filteredWithAuthor(args),
                                 (result.page - 1) * result.perPage,
                                 result.page * result.perPage)
    /\ result.total = Cardinality({i \in 1..Len(posts) : specMatches(posts[i], args)})
    /\ result.totalPages * result.perPage >= result.total
    /\ (result.totalPages - 1) * result.perPage < result.total
    /\ \A pg \in Pages :
         LET r == getPosts(posts, author, [args EXCEPT !.page = pg])
         IN r.total = result.total /\ r.totalPages = result.totalPages

\* C3: every envelope getPosts returns holds at most perPage posts, where
\* perPage is the value the envelope reports.
C3_AtMostPerPagePosts ==
  op = "getPosts" => Len(result.posts) <= result.perPage

\* C3 for the calls whose page size is positive.
C3_AtMostPerPagePosts_PositivePerPage ==
  (op = "getPosts" /\ result.perPage >= 1) => Len(result.posts) <= result.perPage

\* C4: in every envelope getPosts returns, posts is empty exactly when the
\* requested page exceeds totalPages or no record matches (total = 0).
C4_EmptyIffBeyondLastPage ==
  op = "getPosts" =>
    (result.posts = <<>> <=> (result.page > result.totalPages \/ result.total = 0))

\* C4 for the calls whose page number and page size are positive.
C4_EmptyIffBeyondLastPage_PositiveArgs ==
  (op = "getPosts" /\ result.page >= 1 /\ result.perPage >= 1) =>
    (result.posts = <<>> <=> (result.page > result.totalPages \/ result.total = 0))

----------------------------------------------------------------------------
(* Slugs *)

\* C5: no two distinct posts of the store share a slug.
C5_StoredSlugsUnique ==
  \A i, j \in 1..Len(posts) : i # j => posts[i].slug # posts[j].slug

\* C5 restated on titles: two stored posts share a slug exactly when the
\* generator drew the same title for both.
C5_SlugSharedIffTitleDrawnTwice ==
  \A i, j \in 1..Len(posts) :
    (posts[i].slug = posts[j].slug) <=> (posts[i].title = posts[j].title)

----------------------------------------------------------------------------
(* Sorting *)

ascOf(f) == getPosts(posts, author, [f EXCEPT !.sortOrder = "asc"])
descOf(f) == getPosts(posts, author, [f EXCEPT !.sortOrder = "desc"])

\* C6 (as claimed): for the same filters and a page size covering the whole
\* result, the 'asc' and 'desc' results have the same total and the same
\* members, and the 'asc' sequence is exactly the reverse of the 'desc' one.
C6_AscIsReverseOfDesc ==
  (op = "getPosts" /\ coversAll(args, result)) =>
    /\ ascOf(args).total = descOf(args).total
    /\ Range(ascOf(args).posts) = Range(descOf(args).posts)
    /\ ascOf(args).posts = Reverse(descOf(args).posts)

\* C6 (amended): for the same filters and a page size covering the whole
\* result, the 'asc' and 'desc' results have the same total and the same
\* members, the dates of the 'asc' sequence are the dates of the 'desc'
\* sequence reversed, and the 'asc' sequence is exactly the reverse of the
\* 'desc' one when no two posts of the result have the same publishedAt.
C6_AscIsReverseOfDescUpToTies ==
  (op = "getPosts" /\ coversAll(args, result)) =>
    LET asc == ascOf(args)
        desc == descOf(args)
    IN /\ asc.total = desc.total
       /\ Range(asc.posts) = Range(desc.posts)
       /\ Len(asc.posts) = Len(desc.posts)
       /\ datesOf(asc.posts) = Reverse(datesOf(desc.posts))
       /\ ~hasTie(result.posts) => asc.posts = Reverse(desc.posts)

\* an 'asc' call returned the whole result: posts of different dates, no tie
C6_Witness ==
  /\ op = "getPosts"
  /\ coversAll(args, result)
  /\ args.sortOrder = "asc"
  /\ Len(result.posts) >= 3
  /\ ~hasTie(result.posts)

\* C7: the posts of a getPosts result are ordered by publishedAt as
\* sortOrder says (ascending for 'asc', descending otherwise), and two posts
\* of equal publishedAt appear in the order in which they were generated.
C7_SortedWithTiesInGenerationOrder ==
  op = "getPosts" =>
    \A i, j \in 1..Len(result.posts) :
      i < j =>
        LET a == result.posts[i]
            b == result.posts[j]
        IN /\ IF args.sortOrder = "asc"
                THEN a.publishedAt <= b.publishedAt
                ELSE a.publishedAt >= b.publishedAt
           /\ a.publishedAt = b.publishedAt => a.id < b.id

\* an 'asc' call returned posts of equal and of different dates
C7_Witness ==
  /\ op = "getPosts"
  /\ args.sortOrder = "asc"
  /\ hasTie(result.posts)
  /\ hasDistinct(result.posts)

----------------------------------------------------------------------------
(* Calendar filters *)

\* C8: for a year Y and a month M, the posts of getPosts({year: Y, month: M})
\* over all pages are the posts of getPosts({year: Y}) over all pages whose
\* publishedAt month is M, in the same order.
C8_YearMonthIsMonthSubsetOfYear ==
  (op = "getPosts" /\ args.year # None /\ args.month # None) =>
    allPages(args) =
      SelectSeq(allPages([args EXCEPT !.month = None]),
                LAMBDA p : getMonth(p.publishedAt) = args.month[1])

\* a call for January of a year returned posts while the store holds a post
\* of another month of that year
C8_Witness ==
  /\ op = "getPosts"
  /\ args.year # None /\ args.month = Some(0)
  /\ result.total >= 1
  /\ \E i \in 1..Len(posts) :
       /\ getFullYear(posts[i].publishedAt) = args.year[1]
       /\ getMonth(posts[i].publishedAt) # 0

\* C9: given month without year, getPosts ignores month (it never fails):
\* its result is the result of the same filters without month.
C9_MonthWithoutYearIsIgnored ==
  (op = "getPosts" /\ args.year = None /\ args.month # None) =>
    result = getPosts(posts, author, [args EXCEPT !.month = None])

\* what getPosts does with month and no year: it keeps the posts of that
\* calendar month of every year.
C9_MonthWithoutYearFiltersEveryYear ==
  (op = "getPosts" /\ args.year = None /\ args.month # None) =>
    /\ result.total =
         Cardinality({i \in 1..Len(posts) : specMatches(posts[i], args)})
    /\ \A i \in 1..Len(result.posts) :
         getMonth(result.posts[i].publishedAt) = args.month[1]

----------------------------------------------------------------------------
(* getRecentPosts *)

\* C10: getRecentPosts(limit) returns the min(limit, N) most recently
\* published of the N stored posts, newest first, each with the author
\* embedded; for every limit <= 0 it returns the empty sequence.
C10_RecentPosts ==
  op = "getRecentPosts" =>
    /\ args <= 0 => result = <<>>
    /\ args > 0 => Len(result) = Min(args, Len(posts))
    /\ \A i, j \in 1..Len(result) :
         i < j => result[i].publishedAt >= result[j].publishedAt
    /\ \A i \in 1..Len(result) :
         /\ result[i].author = author
         /\ \E k \in 1..Len(posts) : result[i] = withAuthor(posts[k], author)
    /\ \A k \in 1..Len(posts) :
         (\A i \in 1..Len(result) : result[i].id # posts[k].id) =>
           \A i \in 1..Len(result) : result[i].publishedAt >= posts[k].publishedAt

\* C10 for the limits that are not negative.
C10_RecentPosts_NonNegativeLimit ==
  (op = "getRecentPosts" /\ args >= 0) =>
    /\ Len(result) = Min(args, Len(posts))
    /\ \A i, j \in 1..Len(result) :
         i < j => result[i].publishedAt >= result[j].publishedAt
    /\ \A i \in 1..Len(result) :
         /\ result[i].author = author
         /\ \E k \in 1..Len(posts) : result[i] = withAuthor(posts[k], author)
    /\ \A k \in 1..Len(posts) :
         (\A i \in 1..Len(result) : result[i].id # posts[k].id) =>
           \A i \in 1..Len(result) : result[i].publishedAt >= posts[k].publishedAt

----------------------------------------------------------------------------
(* Lookup by slug *)

\* C11: getPostBySlug resolves to null when no stored post has the slug, and
\* otherwise to a stored post with that slug, the author embedded; every
\* call resolves to one of the two.
C11_PostBySlugOrNull ==
  op = "getPostBySlug" =>
    IF \A k \in 1..Len(posts) : posts[k].slug # args
    THEN result = None
    ELSE /\ result # None
         /\ result[1].slug = args
         /\ result[1].author = author
         /\ \E k \in 1..Len(posts) : result[1] = withAuthor(posts[k], author)

\* a lookup found a stored post
C11_Witness ==
  /\ op = "getPostBySlug"
  /\ result # None
  /\ \E k \in 1..Len(posts) : posts[k].slug # args

\* C12: looking up the slug of the post getRecentPosts(1) returns yields a
\* post with the id of that post.
C12_NewestPostFoundByItsSlug ==
  LET newest == getRecentPosts(posts, author, 1)
  IN (op = "getPostBySlug" /\ Len(newest) = 1 /\ args = newest[1].slug) =>
       /\ result # None
       /\ result[1].id = newest[1].id

\* the slug of the newest post was looked up while an older post shares it
C12_Witness ==
  /\ op = "getPostBySlug"
  /\ args = getRecentPosts(posts, author, 1)[1].slug
  /\ \E k \in 2..Len(posts) : posts[k].slug = args

----------------------------------------------------------------------------
(* Archive dates *)

\* the zero-based (year, month) of a post
yearMonthOf(p) ==
  [year |-> getFullYear(p.publishedAt), month |-> getMonth(p.publishedAt)]

\* C13: getAvailableDates returns exactly the (year, month) pairs of the
\* stored posts, each once, by year descending and then month descending.
C13_AvailableDates ==
  op = "getAvailableDates" =>
    /\ Range(result) = {yearMonthOf(posts[k]) : k \in 1..Len(posts)}
    /\ \A i, j \in 1..Len(result) :
         i < j => \/ result[i].year > result[j].year
                  \/ /\ result[i].year = result[j].year
                     /\ result[i].month > result[j].month

\* the dates of a store with two posts of one month and a post of another
\* year were listed
C13_Witness ==
  /\ op = "getAvailableDates"
  /\ Len(result) < Len(posts)
  /\ \E i, j \in 1..Len(result) : result[i].year # result[j].year

----------------------------------------------------------------------------
(* The documented store-backed implementation, PrismaDatabaseService, over a
   table that holds the posts of the mock *)

\* new Date(year, month, 0), the last day of the month before at 00:00, as
\* the latest instant not after it: the last instant of every month lies on
\* that day after 00:00, the instants before it lie earlier
dayZero(year, month) == monthStart(year, month) - 2

\* where.publishedAt of PrismaDatabaseService.getPosts: None without a year
prismaDateRange(f) ==
  IF TruthyNum(f.year)
    THEN Some([gte |-> monthStart(f.year[1], OrDefault(f.month, 0)),
               lte |-> IF f.month # None
                         THEN dayZero(f.year[1], f.month[1] + 1)
                         ELSE dayZero(f.year[1], MonthsPerYear)])
    ELSE None

\* the rows the where clause matches
prismaWhere(rows, f) ==
  LET range == prismaDateRange(f)
  IN {p \in rows :
        /\ TruthyStr(f.search) => matchesSearch(p, f.search[1])
        /\ range # None =>
             /\ p.publishedAt >= range[1].gte
             /\ p.publishedAt <= range[1].lte}

\* PrismaDatabaseService.getPosts: the rows matched, over all pages, and
\* the envelope; the order of rows of equal date is the database's
prismaGetPosts(rows, f) ==
  LET page == OrDefault(f.page, DefaultPage)
      perPage == OrDefault(f.perPage, DefaultPerPage)
      total == Cardinality(prismaWhere(rows, f))
  IN [matched |-> prismaWhere(rows, f), total |-> total, page |-> page,
      perPage |-> perPage, totalPages |-> ceilDiv(total, perPage)]

\* every instant of the months faker.date.past draws from
AnyTimes == FirstTick..(FirstTick + TicksPerMonth * NumTicks - 1)
AnyTimeDraws == [title : { <<"B", ".">> }, excerpt : Excerpts, publishedAt : AnyTimes]

\* filters by year, or by year and month
DateFilters ==
  [search : {None}, year : {Some(2023), Some(2024)}, month : Months,
   sortOrder : SortOrders, page : {None}, perPage : {None}]

PrismaInit == InitWith(AnyTimeDraws)

GetPostsByDate == GetPostsWith(DateFilters)

PrismaGetPosts ==
  /\ op = "idle"
  /\ \E f \in DateFilters :
       /\ op' = "prismaGetPosts"
       /\ args' = f
       /\ result' = prismaGetPosts(Range(posts), f)
       /\ UNCHANGED <<author, posts, now, faker, stream, second>>

PrismaNext ==
  \/ GetPostsByDate
  \/ PrismaGetPosts
  \/ Return

PrismaSpec == PrismaInit /\ [][PrismaNext]_vars

\* C19: for a filter with a year, PrismaDatabaseService.getPosts matches the
\* posts MockDatabaseService.getPosts keeps, the posts of that year or of
\* that month of that year at any day and time, and reports the same total.
C19_PrismaSelectsWhatMockSelects ==
  (op = "prismaGetPosts" /\ args.year # None) =>
    /\ result.matched = Range(filteredPosts(posts, args))
    /\ result.total = getPosts(posts, author, args).total

\* what the two agree on: the posts published before 00:00 of the last day
\* of the month, or of the year
C19_PrismaSelectsWhatMockSelectsBeforeLastDay ==
  (op = "prismaGetPosts" /\ args.year # None) =>
    result.matched =
      {p \in Range(filteredPosts(posts, args)) :
         p.publishedAt <=
           dayZero(args.year[1], IF args.month # None THEN args.month[1] + 1
                                                      ELSE MonthsPerYear)}

----------------------------------------------------------------------------
(* Page copy and determinism *)

configured(page, locale) ==
  /\ page \in {"home", "about", "contact"}
  /\ locale \in {"pt", "en"}

\* C14: getPageContent fails with NotFound for every (page, locale) that is
\* not configured, an unknown page as well as an unknown locale of a known
\* page; it never resolves to undefined.
C14_UnconfiguredPageIsNotFound ==
  (op = "getPageContent" /\ ~configured(args.page, args.locale)) =>
    result.kind = "NotFound"

\* what getPageContent does for them: an unknown locale of a known page
\* resolves to undefined, an unknown page rejects with a TypeError
C14_UnconfiguredPageIsUndefinedOrTypeError ==
  (op = "getPageContent" /\ ~configured(args.page, args.locale)) =>
    IF args.page \in {"home", "about", "contact"}
    THEN result = settled("undefined", None)
    ELSE result = settled("TypeError", None)

\* C15: an instance constructed later, whatever ran in between, holds the
\* author and the posts of the first instance, in the same order.
C15_SecondInstanceIsIdentical ==
  second # None =>
    /\ second[1].author = author
    /\ second[1].posts = posts

\* what two constructions share: everything but publishedAt, and the dates
\* of instances constructed at the same clock
C15_SecondInstanceIsIdenticalUpToDates ==
  second # None =>
    /\ second[1].author = author
    /\ Len(second[1].posts) = Len(posts)
    /\ \A k \in 1..Len(posts) :
         [second[1].posts[k] EXCEPT !.publishedAt = 0]
           = [posts[k] EXCEPT !.publishedAt = 0]

\* the states the shared generator may be in when getPageContent is called:
\* after a constructor that generated n posts, or after getPageContent
GeneratorStates ==
  {fakerAfterConstructor(n) : n \in 0..(GenCount + 1)} \cup {fakerAfterGetPageContent}

\* C16: for a configured (page, locale) getPageContent returns the same copy
\* whatever state the shared generator was left in by the calls before it
\* and by the number of posts generated.
C16_PageCopyIndependentOfHistory ==
  (op = "getPageContent" /\ configured(args.page, args.locale)) =>
    /\ result.kind = "value"
    /\ \A g \in GeneratorStates :
         getPageContent(g, args.page, args.locale) = result

\* copy with generated text was returned after another instance was built
\* at a later time
C16_Witness ==
  /\ op = "getPageContent"
  /\ args.page = "about" /\ args.locale = "en"
  /\ result.kind = "value"
  /\ second # None
  /\ now > 0

\* C17: no call changes the stored author or the stored posts, so a query
\* repeated with the same arguments reads the same store.
C17_QueriesLeaveStoreAlone ==
  [][posts' = posts /\ author' = author]_vars

\* an ascending getPosts returned posts of different dates after the shared
\* generator was reseeded by getPageContent
C17_Witness ==
  /\ op = "getPosts"
  /\ args.sortOrder = "asc"
  /\ hasDistinct(result.posts)
  /\ faker = fakerAfterGetPageContent

----------------------------------------------------------------------------
(* Defaults *)

\* the filters with the documented defaults written out
withDefaults(f) ==
  [f EXCEPT !.page = IF @ = None THEN Some(1) ELSE @,
            !.perPage = IF @ = None THEN Some(10) ELSE @,
            !.sortOrder = IF @ = "undefined" THEN "desc" ELSE @]

\* C18: getPosts without filters, or without page, perPage or sortOrder,
\* returns what it returns for page 1, perPage 10 and sortOrder 'desc', and
\* the envelope reports page 1 and perPage 10 for the omitted values.
C18_OmittedFiltersDefault ==
  op = "getPosts" =>
    /\ result = getPosts(posts, author, withDefaults(args))
    /\ args.page = None => result.page = 1
    /\ args.perPage = None => result.perPage = 10

\* getPosts() returned posts of different dates
C18_Witness ==
  /\ op = "getPosts"
  /\ args.sortOrder = "undefined"
  /\ args.page = None /\ args.perPage = None
  /\ hasDistinct(result.posts)

----------------------------------------------------------------------------
(* The order of the store *)

\* C20: the stored posts are newest first in every reachable state, and for
\* n >= 1 getRecentPosts(n) returns the posts of
\* getPosts({sortOrder: 'desc', page: 1, perPage: n}), in the same order.
C20_StoreNewestFirstAndRecentIsFirstPage ==
  /\ \A i, j \in 1..Len(posts) :
       i < j => posts[i].publishedAt >= posts[j].publishedAt
  /\ (op = "getRecentPosts" /\ args >= 1) =>
       result = getPosts(posts, author,
                         [search |-> None, year |-> None, month |-> None,
                          sortOrder |-> "desc", page |-> Some(1),
                          perPage |-> Some(args)]).posts

\* the two newest posts of a store with equal and with different dates were
\* asked for
C20_Witness ==
  /\ op = "getRecentPosts"
  /\ args = 2
  /\ Len(result) = 2
  /\ hasTie(posts)
  /\ hasDistinct(posts)

----------------------------------------------------------------------------
(* Archive dates and the calendar filters *)

\* getPosts({year, month}) for a pair of getAvailableDates
postsOfDate(d) ==
  getPosts(posts, author,
           [search |-> None, year |-> Some(d.year), month |-> Some(d.month),
            sortOrder |-> "undefined", page |-> None, perPage |-> None])

\* the totals of getPosts({year, month}) summed over the pairs ds
RECURSIVE sumTotals(_)
sumTotals(ds) ==
  IF ds = <<>> THEN 0
  ELSE sumTotals(SubSeq(ds, 1, Len(ds) - 1)) + postsOfDate(ds[Len(ds)]).total

\* C21: every (year, month) pair of getAvailableDates has at least one post
\* in getPosts({year, month}), and the totals of getPosts({year, month})
\* over all the pairs add up to the number of stored posts.
C21_AvailableDatesPartitionPosts ==
  op = "getAvailableDates" =>
    /\ \A i \in 1..Len(result) : postsOfDate(result[i]).total >= 1
    /\ sumTotals(result) = Len(posts)

\* the dates listed hold January, a month of another year, and a month
\* with two posts
C21_Witness ==
  /\ op = "getAvailableDates"
  /\ \E i \in 1..Len(result) : result[i].month = 0
  /\ \E i, j \in 1..Len(result) : result[i].year # result[j].year
  /\ \E i \in 1..Len(result) : postsOfDate(result[i]).total >= 2

----------------------------------------------------------------------------
(* Returned posts *)

\* a returned post is a stored post with the author of getAuthor embedded
\* and with that author's id as authorId
isStoredPostWithAuthor(r) ==
  /\ \E k \in 1..Len(posts) :
       /\ r.id = posts[k].id
       /\ [x \in DOMAIN posts[k] |-> r[x]] = posts[k]
  /\ r.author = getAuthor(author)
  /\ r.authorId = getAuthor(author).id

\* C22: every post getPosts, getPostBySlug or getRecentPosts returns is a
\* stored post with the author of getAuthor embedded and that author's id
\* as authorId, and no stored post appears twice on the pages
\* 1..totalPages of one set of filters.
C22_ReturnedPostsAreStoredOnce ==
  /\ op = "getPosts" =>
       /\ \A i \in 1..Len(result.posts) : isStoredPostWithAuthor(result.posts[i])
       /\ LET all == allPages(args)
          IN \A i, j \in 1..Len(all) : i < j => all[i].id # all[j].id
  /\ op = "getRecentPosts" =>
       \A i \in 1..Len(result) : isStoredPostWithAuthor(result[i])
  /\ (op = "getPostBySlug" /\ result # None) => isStoredPostWithAuthor(result[1])

\* the second of two pages of two posts was returned
C22_Witness ==
  /\ op = "getPosts"
  /\ args.page = Some(2) /\ args.perPage = Some(2)
  /\ result.totalPages = 2
  /\ Len(result.posts) >= 1

====
